---- MODULE Spec2Model ----
(***************************************************************************)
(* Model of the modal dialog, image gallery and focus trap controller of   *)
(* src/scripts/modal.js.  One action per event handler or exported call;   *)
(* every handler runs to completion (single threaded event loop).          *)
(*                                                                         *)
(* The page template (index.html) and the style sheet are not part of the  *)
(* sources.  The model takes the dialog template to hold the backdrop, the *)
(* gallery container and, optionally, a close button placed before the     *)
(* gallery container; the dialog starts hidden.                            *)
(*                                                                         *)
(* The other controllers of the page (motion preference, map, history      *)
(* timeline, contact form) share no state with the dialog.  Each has its   *)
(* own variables and its own specification (SpecMotion, SpecMap,           *)
(* SpecHistory, SpecForm), in which the rest of the page rests.            *)
(***************************************************************************)
EXTENDS Integers, Sequences, FiniteSets, TLC

\* ------------------------------------------------------------------ bounds
MaxGallery == 3       \* longest gallery of a location of the dataset
MaxTimers == 2        \* open-focus timers pending at the same time

\* ------------------------------------------------------- program constants
swipeThreshold == 50
MinName == 2
MinMessage == 10

\* ---------------------------------------------------------------- elements
\* A DOM element handle.  live = FALSE: the element was removed from the
\* document (the gallery container was rendered again); focus() on it does
\* nothing.
El(tag) == [tag |-> tag, i |-> 0, live |-> TRUE]
Body == El("body")
Marker == El("marker")
CloseBtn == El("close")
PrevBtn == El("prev")
NextBtn == El("next")
Thumb(i) == [tag |-> "thumb", i |-> i, live |-> TRUE]
NoElement == El("null")

GalleryTags == {"prev", "next", "thumb"}
InGallery(e) == e.tag \in GalleryTags /\ e.live
Detach(e) == IF e.tag \in GalleryTags THEN [e EXCEPT !.live = FALSE] ELSE e
OutsideElements == {Marker}

\* --------------------------------------------------------------- locations
Url(s, i) == [site |-> s, n |-> i]
NoUrl == Url(0, 0)
Undefined == Url(0, -1)
Location(s, n) ==
    [id |-> s * 10 + n, hasGallery |-> TRUE, gallery |-> [i \in 1..n |-> Url(s * 10 + n, i)]]
NoGalleryLocation == [id |-> 1, hasGallery |-> FALSE, gallery |-> <<>>]
Null == [id |-> 0, hasGallery |-> FALSE, gallery |-> <<>>]
\* the dataset: one location per gallery length, a second location with a
\* gallery of two images and a location without the gallery field
Locations ==
    {Location(1, n) : n \in 0..MaxGallery} \cup {Location(2, 2), NoGalleryLocation}

\* longest run of consecutive "next" steps that nextRun records
MaxRun == MaxGallery

TouchXs == {0, 1, 51}

VARIABLES
    modalExists,               \* document.getElementById('modal') is found
    closeBtnExists,            \* the dialog template has a .modal-close button
    currentLocation,
    currentImageIndex,
    focusableElements,
    previouslyFocusedElement,
    touchStartX,
    touchEndX,
    ariaHidden,                \* the dialog's aria-hidden attribute
    bodyOverflow,              \* document.body.style.overflow
    galleryView,               \* what the gallery container shows
    activeElement,             \* document.activeElement
    trapListeners,             \* keydown listeners attached to the dialog
    timers,                    \* open-focus timers not fired yet
    error,                     \* error raised by the last handler, or "none"
    lastOp,                    \* the last handler that ran
    focusAtOpen,               \* focus at the call of openModal, kept while it or the
                               \* closeModal() right after it is the last handler
    nextRun,                   \* consecutive navigateGallery(+1) since openModal
    openedOver                 \* the last handler was an openModal that found the
                               \* dialog already open

vars == <<modalExists, closeBtnExists, currentLocation, currentImageIndex,
          focusableElements, previouslyFocusedElement, touchStartX, touchEndX,
          ariaHidden, bodyOverflow, galleryView, activeElement, trapListeners,
          timers, error, lastOp, focusAtOpen, nextRun, openedOver>>

template == <<modalExists, closeBtnExists>>
touch == <<touchStartX, touchEndX>>

\* ------------------------------------------- state of the other controllers
VARIABLES
    pageLoaded,                \* init() has run in this page session
    motionEnabled,
    storedMotion,              \* localStorage item "motionEnabled", or "absent"
    rootReduced,               \* <html> has the class reduce-motion
    ariaPressed,               \* aria-pressed of the motion toggle, "unset" before init
    toggleExists,              \* the page has the #motionToggle button
    prefersReduced,            \* the media query (prefers-reduced-motion: reduce)
    animationInstances,        \* live handles in animationInstances
    parallaxInstances,         \* live handles in parallaxInstances
    refreshTimers,             \* pending refreshScrollTrigger timers
    manualPreference,          \* the user chose the preference with the toggle
    lastMotionOp,              \* the last motion handler that ran
    toggleRun,                 \* consecutive toggle clicks, up to 2
    beforeToggles              \* the four representations before that run

motionVars == <<pageLoaded, motionEnabled, storedMotion, rootReduced, ariaPressed,
                toggleExists, prefersReduced, animationInstances, parallaxInstances,
                refreshTimers, manualPreference, lastMotionOp, toggleRun,
                beforeToggles>>

VARIABLES
    leafletLoaded,             \* the global L of the Leaflet library is defined
    mapContainerExists,        \* the page has the #sicilyMap element
    mapPromise,                \* the promise of initMap(): "none" before the call
    locationsOutcome,          \* how the fetch of locations.json ended, or "none"
    locationsData,
    mapCreated,                \* map holds a Leaflet map
    markers,                   \* positions in locationsData of the records with a marker
    mapText                    \* the inline text shown in the map container

mapVars == <<leafletLoaded, mapContainerExists, mapPromise, locationsOutcome,
             locationsData, mapCreated, markers, mapText>>

VARIABLES
    timelineExists,            \* the page has the #timelinePoints element
    sliderExists,              \* the page has the slider track, buttons and counter
    historyPromise,            \* the promise of initHistory(): "none" before the call
    historyOutcome,            \* how the fetch of history.json ended, or "none"
    historyData,               \* the number of events of each period
    timeline,                  \* cursors and rendered state of the timeline and slider
    sliderTouchStartX,         \* touchStartX of the slider's swipe listeners
    historyText,               \* the inline text shown in the history section
    historyError,              \* error raised by the last history handler, or "none"
    lastHistoryOp              \* the last history handler that ran

historyVars == <<timelineExists, sliderExists, historyPromise, historyOutcome,
                 historyData, timeline, sliderTouchStartX, historyText, historyError,
                 lastHistoryOp>>

VARIABLES
    formTemplate,              \* which inputs and error elements the page has, and
                               \* whether it has the #form-success element
    formValues,                \* the value of each input
    fieldErrors,               \* the text of each field's error element
    errorClass,                \* the inputs that carry the class error
    successShown,              \* #form-success carries the class show
    hideTimers,                \* pending timers that hide the success message
    formFocus,                 \* the field the last handler focused, or "none"
    formError,                 \* error raised by the last form handler, or "none"
    formRequests,              \* network requests the form has sent
    lastFormOp                 \* the last form handler that ran

formVars == <<formTemplate, formValues, fieldErrors, errorClass, successShown,
              hideTimers, formFocus, formError, formRequests, lastFormOp>>

page == <<motionVars, mapVars, historyVars, formVars>>

allVars == <<vars, page>>

\* what the handlers of one controller leave alone
exceptMotion == <<vars, mapVars, historyVars, formVars>>
exceptMap == <<vars, motionVars, historyVars, formVars>>
exceptHistory == <<vars, motionVars, mapVars, formVars>>
exceptForm == <<vars, motionVars, mapVars, historyVars>>

\* ------------------------------------------------------------------ bounds
NumAnimated == 2      \* elements that initAnimations animates
NumLayers == 1        \* parallax layers of the hero section
MaxRefresh == 2       \* refreshScrollTrigger timers pending at the same time
MaxRecords == 2       \* longest locations dataset
MaxPeriods == 2       \* longest history dataset
MaxEvents == 2        \* most events of one period
MaxEmailLen == 4      \* longest email typed out of every character
MaxNameLen == 3       \* longest value typed into the name field
MaxPad == 1           \* most blanks typed before and after a message
MaxHide == 1          \* hide timers of the success message pending at the same time

\* ------------------------------------------------------------ gallery view
BlankView ==
    [kind |-> "blank", src |-> NoUrl, counter |-> <<0, 0>>, thumbs |-> 0,
     active |-> {}, images |-> <<>>]

\* images[i] of the script, i counted from 0
ImageAt(images, i) == IF i \in 0..(Len(images) - 1) THEN images[i + 1] ELSE Undefined

CounterText(i, n) == <<i + 1, n>>

ActiveThumbs(n, idx) == {i \in 0..(n - 1) : i = idx}

\* renderGallery without the branch for a single image
renderGalleryNoSingle(images) ==
    IF Len(images) = 0
    THEN [BlankView EXCEPT !.kind = "empty"]
    ELSE [kind |-> "full", src |-> images[1], counter |-> <<1, Len(images)>>,
          thumbs |-> Len(images), active |-> {0}, images |-> images]

\* renderGallery without the branch for an empty gallery
renderGalleryNoEmpty(images) ==
    IF Len(images) = 1
    THEN [BlankView EXCEPT !.kind = "single", !.src = images[1]]
    ELSE [kind |-> "full", src |-> ImageAt(images, 0), counter |-> <<1, Len(images)>>,
          thumbs |-> Len(images), active |-> {0}, images |-> images]

renderGallery(images) ==
    IF Len(images) = 0
    THEN [BlankView EXCEPT !.kind = "empty"]
    ELSE IF Len(images) = 1
    THEN [BlankView EXCEPT !.kind = "single", !.src = images[1]]
    ELSE [kind |-> "full", src |-> images[1], counter |-> <<1, Len(images)>>,
          thumbs |-> Len(images), active |-> {0}, images |-> images]

\* updateGalleryImage that leaves the counter text alone
updateGalleryImageNoCounter(view, images, idx) ==
    IF view.kind = "full"
    THEN [view EXCEPT !.src = ImageAt(images, idx),
                      !.active = ActiveThumbs(view.thumbs, idx)]
    ELSE view

updateGalleryImage(view, images, idx) ==
    IF view.kind = "full"
    THEN [view EXCEPT !.src = ImageAt(images, idx),
                      !.counter = CounterText(idx, Len(images)),
                      !.active = ActiveThumbs(view.thumbs, idx)]
    ELSE view

\* navigateGallery without the wrap
NavigateIndexNoWrap(idx, direction, n) == idx + direction

\* navigateGallery that stops at both ends
NavigateIndexClamp(idx, direction, n) ==
    IF idx + direction < 0 THEN 0
    ELSE IF idx + direction >= n THEN n - 1
    ELSE idx + direction

\* navigateGallery that wraps one step late
NavigateIndexLate(idx, direction, n) ==
    IF idx + direction < 0 THEN n - 1
    ELSE IF idx + direction > n THEN 0
    ELSE idx + direction

NavigateIndex(idx, direction, n) ==
    IF idx + direction < 0 THEN n - 1
    ELSE IF idx + direction >= n THEN 0
    ELSE idx + direction

\* ------------------------------------------------------------------- focus
Attached(e) ==
    /\ e.live
    /\ e.tag = "marker"
       \/ (e.tag = "close" /\ modalExists /\ closeBtnExists)
       \/ (e.tag \in {"prev", "next"} /\ galleryView.kind = "full")
       \/ (e.tag = "thumb" /\ galleryView.kind = "full" /\ e.i < galleryView.thumbs)

\* e.focus() when cur has focus: a detached element, the body and null take
\* no focus
FocusOn(e, cur) == IF Attached(e) THEN e ELSE cur

\* modal.querySelectorAll(focusableSelectors) in document order
ModalFocusables(view) ==
    (IF closeBtnExists THEN <<CloseBtn>> ELSE <<>>)
    \o (IF view.kind = "full"
        THEN <<PrevBtn, NextBtn>> \o [i \in 1..view.thumbs |-> Thumb(i - 1)]
        ELSE <<>>)

\* whether the identifier trapFocus resolves in the scope of setupFocusTrap:
\* it is only the name of the function expression of line 252, bound inside
\* that function's own body
TrapFocusInScope == FALSE

\* openModal that stores the element it is about to focus
CapturedFocusInDialog(active) == IF closeBtnExists THEN CloseBtn ELSE NoElement

\* document.activeElement as openModal stores it
CapturedFocus(active) == active

\* the other controllers before the page script runs, on a fresh profile
MotionIdle ==
    /\ pageLoaded = FALSE
    /\ motionEnabled = TRUE
    /\ storedMotion = "absent"
    /\ rootReduced = FALSE
    /\ ariaPressed = "unset"
    /\ toggleExists = TRUE
    /\ prefersReduced = FALSE
    /\ animationInstances = 0
    /\ parallaxInstances = 0
    /\ refreshTimers = 0
    /\ manualPreference = FALSE
    /\ lastMotionOp = "none"
    /\ toggleRun = 0
    /\ beforeToggles = <<>>

MapIdle ==
    /\ leafletLoaded = TRUE
    /\ mapContainerExists = TRUE
    /\ mapPromise = "none"
    /\ locationsOutcome = "none"
    /\ locationsData = <<>>
    /\ mapCreated = FALSE
    /\ markers = <<>>
    /\ mapText = ""

\* the cursors of history.js and what the timeline and the slider show:
\* point is the active timeline point, slide the active slide (-1: none),
\* counter the text "i / n" of the slider counter (<<0, 0>>: empty)
BlankTimeline ==
    [currentPeriodIndex |-> 0, currentEventIndex |-> 0, points |-> 0, point |-> -1,
     slides |-> 0, slide |-> -1, counter |-> <<0, 0>>, prevDisabled |-> FALSE,
     nextDisabled |-> FALSE, thrown |-> FALSE]

HistoryIdle ==
    /\ timelineExists = TRUE
    /\ sliderExists = TRUE
    /\ historyPromise = "none"
    /\ historyOutcome = "none"
    /\ historyData = <<>>
    /\ timeline = BlankTimeline
    /\ sliderTouchStartX = 0
    /\ historyText = ""
    /\ historyError = "none"
    /\ lastHistoryOp = "none"

Fields == {"name", "email", "message"}
FullForm == [inputs |-> Fields, errors |-> Fields, success |-> TRUE]
BlankValues == [f \in Fields |-> <<>>]
NoErrors == [f \in Fields |-> ""]

FormBlank ==
    /\ formValues = BlankValues
    /\ fieldErrors = NoErrors
    /\ errorClass = {}
    /\ successShown = FALSE
    /\ hideTimers = 0
    /\ formFocus = "none"
    /\ formError = "none"
    /\ formRequests = 0
    /\ lastFormOp = "none"

FormIdle == formTemplate = FullForm /\ FormBlank

PageIdle == MotionIdle /\ MapIdle /\ HistoryIdle /\ FormIdle

Init ==
    /\ modalExists \in BOOLEAN
    /\ closeBtnExists \in BOOLEAN
    /\ currentLocation = Null
    /\ currentImageIndex = 0
    /\ focusableElements = <<>>
    /\ previouslyFocusedElement = NoElement
    /\ touchStartX = 0
    /\ touchEndX = 0
    /\ ariaHidden = "true"
    /\ bodyOverflow = ""
    /\ galleryView = BlankView
    /\ activeElement = Body
    /\ trapListeners = <<>>
    /\ timers = 0
    /\ error = "none"
    /\ lastOp = "init"
    /\ focusAtOpen = NoElement
    /\ nextRun = 0
    /\ openedOver = FALSE
    /\ PageIdle

\* ---------------------------------------------------------------- openModal
\* openModal that returns when a session is already open
OpenGuardFailsWhenOpen(location) ==
    ~modalExists \/ location = Null \/ currentLocation # Null

\* the guard of openModal without its test of the location
OpenGuardFailsNoNullTest(location) == ~modalExists

\* setupFocusTrap without its return for an empty focus ring
FocusTrapReturnsNever(ring) == FALSE

\* the guard of line 243: setupFocusTrap returns before it touches a listener
FocusTrapReturns(ring) == Len(ring) = 0

\* the guard of line 44: openModal returns at once
OpenGuardFails(location) == ~modalExists \/ location = Null

openModal(location) ==
    /\ timers < MaxTimers
    /\ lastOp' = IF OpenGuardFails(location) THEN "openModalNoop" ELSE "openModal"
    /\ focusAtOpen' = activeElement
    /\ openedOver' = (~OpenGuardFails(location) /\ ariaHidden = "false")
    /\ UNCHANGED page
    /\ UNCHANGED <<template, touch>>
    /\ IF OpenGuardFails(location)
       THEN /\ error' = "none"
            /\ UNCHANGED <<currentLocation, currentImageIndex, focusableElements,
                           previouslyFocusedElement, ariaHidden, bodyOverflow,
                           galleryView, activeElement, trapListeners, timers,
                           nextRun>>
       ELSE /\ currentLocation' = location
            /\ currentImageIndex' = 0
            /\ nextRun' = 0
            \* the gallery container is rendered again: its former elements
            \* leave the document
            /\ previouslyFocusedElement' = Detach(CapturedFocus(activeElement))
            /\ activeElement' = IF InGallery(activeElement) THEN Body ELSE activeElement
            /\ galleryView' = renderGallery(location.gallery)
            /\ ariaHidden' = "false"
            /\ bodyOverflow' = "hidden"
            \* setupFocusTrap
            /\ focusableElements' = ModalFocusables(galleryView')
            /\ IF FocusTrapReturns(focusableElements')
               THEN /\ error' = "none"
                    /\ timers' = timers + 1
                    /\ UNCHANGED trapListeners
               ELSE IF ~TrapFocusInScope
               THEN /\ error' = "ReferenceError"
                    /\ UNCHANGED <<trapListeners, timers>>
               ELSE /\ error' = "none"
                    /\ timers' = timers + 1
                    /\ trapListeners' =
                         Append([k \in 1..Len(trapListeners) |->
                                   [first |-> Detach(trapListeners[k].first),
                                    last |-> Detach(trapListeners[k].last)]],
                                [first |-> focusableElements'[1],
                                 last |-> focusableElements'[Len(focusableElements')]])

\* --------------------------------------------------------------- closeModal
\* closeModal that does not reset currentImageIndex
closeModalKeepsIndex(focus) ==
    IF ~modalExists
    THEN /\ activeElement' = focus
         /\ UNCHANGED <<currentLocation, currentImageIndex, focusableElements,
                        previouslyFocusedElement, ariaHidden, bodyOverflow>>
    ELSE /\ ariaHidden' = "true"
         /\ bodyOverflow' = ""
         /\ activeElement' = IF previouslyFocusedElement # NoElement
                             THEN FocusOn(previouslyFocusedElement, focus)
                             ELSE focus
         /\ previouslyFocusedElement' = NoElement
         /\ currentLocation' = Null
         /\ UNCHANGED currentImageIndex
         /\ focusableElements' = <<>>

\* closeModal that leaves the focus ring as it is
closeModalKeepsRing(focus) ==
    IF ~modalExists
    THEN /\ activeElement' = focus
         /\ UNCHANGED <<currentLocation, currentImageIndex, focusableElements,
                        previouslyFocusedElement, ariaHidden, bodyOverflow>>
    ELSE /\ ariaHidden' = "true"
         /\ bodyOverflow' = ""
         /\ activeElement' = IF previouslyFocusedElement # NoElement
                             THEN FocusOn(previouslyFocusedElement, focus)
                             ELSE focus
         /\ previouslyFocusedElement' = NoElement
         /\ currentLocation' = Null
         /\ currentImageIndex' = 0
         /\ UNCHANGED focusableElements

\* closeModal that leaves the page scroll disabled
closeModalKeepsOverflow(focus) ==
    IF ~modalExists
    THEN /\ activeElement' = focus
         /\ UNCHANGED <<currentLocation, currentImageIndex, focusableElements,
                        previouslyFocusedElement, ariaHidden, bodyOverflow>>
    ELSE /\ ariaHidden' = "true"
         /\ UNCHANGED bodyOverflow
         /\ activeElement' = IF previouslyFocusedElement # NoElement
                             THEN FocusOn(previouslyFocusedElement, focus)
                             ELSE focus
         /\ previouslyFocusedElement' = NoElement
         /\ currentLocation' = Null
         /\ currentImageIndex' = 0
         /\ focusableElements' = <<>>

closeModalBody(focus) ==
    IF ~modalExists
    THEN /\ activeElement' = focus
         /\ UNCHANGED <<currentLocation, currentImageIndex, focusableElements,
                        previouslyFocusedElement, ariaHidden, bodyOverflow>>
    ELSE /\ ariaHidden' = "true"
         /\ bodyOverflow' = ""
         /\ activeElement' = IF previouslyFocusedElement # NoElement
                             THEN FocusOn(previouslyFocusedElement, focus)
                             ELSE focus
         /\ previouslyFocusedElement' =
              IF previouslyFocusedElement # NoElement THEN NoElement
              ELSE previouslyFocusedElement
         /\ currentLocation' = Null
         /\ currentImageIndex' = 0
         /\ focusableElements' = <<>>

closeModal ==
    /\ lastOp' = IF modalExists THEN "closeModal" ELSE "closeModalNoop"
    /\ error' = "none"
    /\ closeModalBody(activeElement)
    /\ nextRun' = -1
    /\ UNCHANGED <<template, touch, galleryView, trapListeners, timers>>
    /\ focusAtOpen' = IF lastOp = "openModal" THEN focusAtOpen ELSE NoElement
    /\ openedOver' = FALSE
    /\ UNCHANGED page

\* --------------------------------------------------------- navigateGallery
\* navigateGallery(direction, images): the index wraps, then the view follows
navigateGallery(direction, images) ==
    /\ currentImageIndex' = NavigateIndex(currentImageIndex, direction, Len(images))
    /\ galleryView' = updateGalleryImage(galleryView, images, currentImageIndex')
    /\ nextRun' = IF direction = 1 /\ nextRun \in 0..(MaxRun - 1) THEN nextRun + 1 ELSE -1

\* the dialog is displayed; the user reaches its elements by mouse click and
\* sequential focus navigation only then
Shown == modalExists /\ ariaHidden = "false"

\* a mouse click may or may not move the focus to the clicked element
ClickFocus(e) == {activeElement, e}

\* click on .gallery-nav.prev (direction -1) or .gallery-nav.next (+1); the
\* listener holds the images array of the rendering that created the button
clickNav(direction) ==
    /\ Shown
    /\ galleryView.kind = "full"
    /\ lastOp' = "clickNav"
    /\ error' = "none"
    /\ \E f \in ClickFocus(IF direction = 1 THEN NextBtn ELSE PrevBtn) : activeElement' = f
    /\ navigateGallery(direction, galleryView.images)
    /\ UNCHANGED <<template, touch, currentLocation, focusableElements,
                   previouslyFocusedElement, ariaHidden, bodyOverflow,
                   trapListeners, timers>>
    /\ focusAtOpen' = NoElement
    /\ openedOver' = FALSE
    /\ UNCHANGED page

clickThumb(index) ==
    /\ Shown
    /\ galleryView.kind = "full"
    /\ index \in 0..(galleryView.thumbs - 1)
    /\ lastOp' = "clickThumb"
    /\ error' = "none"
    /\ \E f \in ClickFocus(Thumb(index)) : activeElement' = f
    /\ currentImageIndex' = index
    /\ galleryView' = updateGalleryImage(galleryView, galleryView.images, index)
    /\ nextRun' = -1
    /\ UNCHANGED <<template, touch, currentLocation, focusableElements,
                   previouslyFocusedElement, ariaHidden, bodyOverflow,
                   trapListeners, timers>>
    /\ focusAtOpen' = NoElement
    /\ openedOver' = FALSE
    /\ UNCHANGED page

\* click on .modal-backdrop: closeModal is the listener
clickBackdrop ==
    /\ Shown
    /\ lastOp' = "clickBackdrop"
    /\ error' = "none"
    /\ \E f \in ClickFocus(Body) : closeModalBody(f)
    /\ nextRun' = -1
    /\ UNCHANGED <<template, touch, galleryView, trapListeners, timers>>
    /\ focusAtOpen' = NoElement
    /\ openedOver' = FALSE
    /\ UNCHANGED page

\* click on .modal-close: closeModal is the listener
clickClose ==
    /\ Shown
    /\ closeBtnExists
    /\ lastOp' = "clickClose"
    /\ error' = "none"
    /\ \E f \in ClickFocus(CloseBtn) : closeModalBody(f)
    /\ nextRun' = -1
    /\ UNCHANGED <<template, touch, galleryView, trapListeners, timers>>
    /\ focusAtOpen' = NoElement
    /\ openedOver' = FALSE
    /\ UNCHANGED page

\* -------------------------------------------------------------------- touch
handleTouchStart(x) ==
    /\ modalExists
    /\ touchStartX' = x
    /\ lastOp' = "touchStart"
    /\ error' = "none"
    /\ UNCHANGED <<template, touchEndX, currentLocation, currentImageIndex,
                   focusableElements, previouslyFocusedElement, ariaHidden,
                   bodyOverflow, galleryView, activeElement, trapListeners,
                   timers, nextRun>>
    /\ focusAtOpen' = NoElement
    /\ openedOver' = FALSE
    /\ UNCHANGED page

Abs(x) == IF x < 0 THEN -x ELSE x

\* handleSwipe without the threshold test
SwipeDirectionNoThreshold(startX, endX, location) ==
    IF ~location.hasGallery \/ Len(location.gallery) <= 1 THEN 0
    ELSE IF startX - endX > 0 THEN 1
    ELSE -1

\* handleSwipe with the two directions exchanged
SwipeDirectionReversed(startX, endX, location) ==
    IF Abs(startX - endX) < swipeThreshold THEN 0
    ELSE IF ~location.hasGallery \/ Len(location.gallery) <= 1 THEN 0
    ELSE IF startX - endX > 0 THEN -1
    ELSE 1

\* the direction handleSwipe navigates in, 0 when it returns early
SwipeDirection(startX, endX, location) ==
    IF Abs(startX - endX) < swipeThreshold THEN 0
    ELSE IF ~location.hasGallery \/ Len(location.gallery) <= 1 THEN 0
    ELSE IF startX - endX > 0 THEN 1
    ELSE -1

handleTouchEnd(x) ==
    /\ modalExists
    /\ touchEndX' = x
    /\ error' = "none"
    /\ IF SwipeDirection(touchStartX, x, currentLocation) = 0
       THEN /\ lastOp' = "touchEnd"
            /\ UNCHANGED <<currentImageIndex, galleryView, nextRun>>
       ELSE /\ lastOp' = "swipe"
            /\ navigateGallery(SwipeDirection(touchStartX, x, currentLocation),
                               currentLocation.gallery)
    /\ UNCHANGED <<template, touchStartX, currentLocation, focusableElements,
                   previouslyFocusedElement, ariaHidden, bodyOverflow,
                   activeElement, trapListeners, timers>>
    /\ focusAtOpen' = NoElement
    /\ openedOver' = FALSE
    /\ UNCHANGED page

\* ----------------------------------------------------------------- keyboard
InModal(e) == e.tag \in {"close", "prev", "next", "thumb"}

\* the keydown listeners attached to the dialog by setupFocusTrap, run in
\* the order they were attached; each closes over its own first and last
RECURSIVE RunTraps(_, _, _, _)
RunTraps(listeners, key, shift, st) ==
    IF listeners = <<>> THEN st
    ELSE LET l == Head(listeners)
             hit == /\ key = "Tab"
                    /\ st.focus = (IF shift THEN l.first ELSE l.last)
             nxt == IF hit
                    THEN [focus |-> FocusOn(IF shift THEN l.last ELSE l.first, st.focus),
                          prevented |-> TRUE]
                    ELSE st
         IN RunTraps(Tail(listeners), key, shift, nxt)

\* what the dialog's own listeners do with a key pressed on activeElement
TrapResult(key, shift) ==
    IF modalExists /\ InModal(activeElement)
    THEN RunTraps(trapListeners, key, shift, [focus |-> activeElement, prevented |-> FALSE])
    ELSE [focus |-> activeElement, prevented |-> FALSE]

\* sequential focus navigation of the browser, the default action of Tab
TabOrder ==
    <<Marker>>
    \o (IF Shown THEN ModalFocusables(galleryView) ELSE <<>>)

Position(order, e) ==
    IF \E k \in 1..Len(order) : order[k] = e
    THEN CHOOSE k \in 1..Len(order) : order[k] = e
    ELSE 0

DefaultTab(e, shift) ==
    LET p == Position(TabOrder, e)
    IN IF shift
       THEN (IF p = 0 THEN TabOrder[Len(TabOrder)]
             ELSE IF p = 1 THEN Body ELSE TabOrder[p - 1])
       ELSE (IF p = Len(TabOrder) THEN Body ELSE TabOrder[p + 1])

\* handleModalKeydown returns at once unless the dialog is shown
KeydownHandled == modalExists /\ ariaHidden # "true"

\* Tab or Shift+Tab: handleModalKeydown does nothing with it
keyTab(shift) ==
    /\ lastOp' = "keyTab"
    /\ error' = "none"
    /\ LET r == TrapResult("Tab", shift)
       IN activeElement' = IF r.prevented THEN r.focus ELSE DefaultTab(r.focus, shift)
    /\ UNCHANGED <<template, touch, currentLocation, currentImageIndex,
                   focusableElements, previouslyFocusedElement, ariaHidden,
                   bodyOverflow, galleryView, trapListeners, timers, nextRun>>
    /\ focusAtOpen' = NoElement
    /\ openedOver' = FALSE
    /\ UNCHANGED page

keyEscape ==
    /\ lastOp' = IF KeydownHandled THEN "keyEscape" ELSE "keyIgnored"
    /\ error' = "none"
    /\ IF KeydownHandled
       THEN closeModalBody(activeElement) /\ nextRun' = -1
       ELSE UNCHANGED <<currentLocation, currentImageIndex, focusableElements,
                        previouslyFocusedElement, ariaHidden, bodyOverflow,
                        activeElement, nextRun>>
    /\ UNCHANGED <<template, touch, galleryView, trapListeners, timers>>
    /\ focusAtOpen' = NoElement
    /\ openedOver' = FALSE
    /\ UNCHANGED page

\* the conditions of lines 273 and 281 under which an arrow key navigates
ArrowNavigates ==
    /\ KeydownHandled
    /\ currentLocation.hasGallery
    /\ Len(currentLocation.gallery) > 1

\* arrow keys that step the index themselves, whatever the gallery's length
keyArrowUnguarded(direction) ==
    /\ error' = "none"
    /\ IF KeydownHandled /\ currentLocation.hasGallery
       THEN /\ lastOp' = "keyArrow"
            /\ currentImageIndex' = currentImageIndex + direction
            /\ galleryView' = updateGalleryImage(galleryView, currentLocation.gallery,
                                                 currentImageIndex')
            /\ nextRun' = -1
       ELSE /\ lastOp' = "keyIgnored"
            /\ UNCHANGED <<currentImageIndex, galleryView, nextRun>>
    /\ UNCHANGED <<template, touch, currentLocation, focusableElements,
                   previouslyFocusedElement, ariaHidden, bodyOverflow,
                   activeElement, trapListeners, timers>>
    /\ focusAtOpen' = NoElement
    /\ openedOver' = FALSE
    /\ UNCHANGED page

\* arrow keys with the two directions exchanged
keyArrowReversed(direction) ==
    /\ error' = "none"
    /\ IF ArrowNavigates
       THEN /\ lastOp' = "keyArrow"
            /\ navigateGallery(-direction, currentLocation.gallery)
       ELSE /\ lastOp' = "keyIgnored"
            /\ UNCHANGED <<currentImageIndex, galleryView, nextRun>>
    /\ UNCHANGED <<template, touch, currentLocation, focusableElements,
                   previouslyFocusedElement, ariaHidden, bodyOverflow,
                   activeElement, trapListeners, timers>>
    /\ focusAtOpen' = NoElement
    /\ openedOver' = FALSE
    /\ UNCHANGED page

\* ArrowLeft (direction -1) and ArrowRight (+1)
keyArrow(direction) ==
    /\ error' = "none"
    /\ IF ArrowNavigates
       THEN /\ lastOp' = "keyArrow"
            /\ navigateGallery(direction, currentLocation.gallery)
       ELSE /\ lastOp' = "keyIgnored"
            /\ UNCHANGED <<currentImageIndex, galleryView, nextRun>>
    /\ UNCHANGED <<template, touch, currentLocation, focusableElements,
                   previouslyFocusedElement, ariaHidden, bodyOverflow,
                   activeElement, trapListeners, timers>>
    /\ focusAtOpen' = NoElement
    /\ openedOver' = FALSE
    /\ UNCHANGED page

\* ------------------------------------------------------------------- timers
\* the callback of the setTimeout of openModal
focusTimer ==
    /\ timers > 0
    /\ timers' = timers - 1
    /\ lastOp' = "focusTimer"
    /\ error' = "none"
    /\ activeElement' = IF Len(focusableElements) > 0
                        THEN FocusOn(focusableElements[1], activeElement)
                        ELSE activeElement
    /\ UNCHANGED <<template, touch, currentLocation, currentImageIndex,
                   focusableElements, previouslyFocusedElement, ariaHidden,
                   bodyOverflow, galleryView, trapListeners, nextRun>>
    /\ focusAtOpen' = NoElement
    /\ openedOver' = FALSE
    /\ UNCHANGED page

\* the user moves the focus to an element of the page outside the dialog, or
\* away from every element
userFocus(e) ==
    /\ e # activeElement
    /\ activeElement' = e
    /\ lastOp' = "userFocus"
    /\ error' = "none"
    /\ UNCHANGED <<template, touch, currentLocation, currentImageIndex,
                   focusableElements, previouslyFocusedElement, ariaHidden,
                   bodyOverflow, galleryView, trapListeners, timers, nextRun>>
    /\ focusAtOpen' = NoElement
    /\ openedOver' = FALSE
    /\ UNCHANGED page

Next ==
    \/ \E location \in Locations \cup {Null} : openModal(location)
    \/ closeModal
    \/ \E direction \in {-1, 1} : clickNav(direction)
    \/ \E index \in 0..(MaxGallery - 1) : clickThumb(index)
    \/ clickBackdrop
    \/ clickClose
    \/ \E x \in TouchXs : handleTouchStart(x)
    \/ \E x \in TouchXs : handleTouchEnd(x)
    \/ \E shift \in BOOLEAN : keyTab(shift)
    \/ keyEscape
    \/ \E direction \in {-1, 1} : keyArrow(direction)
    \/ focusTimer
    \/ \E e \in OutsideElements \cup {Body} : userFocus(e)

Spec == Init /\ [][Next]_allVars

\* a timer that was set fires: the event loop runs the callback of every
\* setTimeout; nothing obliges the user to act
FairSpec == Init /\ [][Next]_allVars /\ WF_allVars(focusTimer)

\* ======================================================= motion preference
\* the model of the dialog at rest, for the specifications of the other
\* controllers
ModalIdle ==
    /\ modalExists = TRUE
    /\ closeBtnExists = TRUE
    /\ currentLocation = Null
    /\ currentImageIndex = 0
    /\ focusableElements = <<>>
    /\ previouslyFocusedElement = NoElement
    /\ touchStartX = 0
    /\ touchEndX = 0
    /\ ariaHidden = "true"
    /\ bodyOverflow = ""
    /\ galleryView = BlankView
    /\ activeElement = Body
    /\ trapListeners = <<>>
    /\ timers = 0
    /\ error = "none"
    /\ lastOp = "init"
    /\ focusAtOpen = NoElement
    /\ nextRun = 0
    /\ openedOver = FALSE

\* enabled.toString()
BoolString(b) == IF b THEN "true" ELSE "false"

\* checkMotionPreference that asks the system first and the stored key last
checkMotionPreferenceSystemFirst(savedPreference, prefers, enabled) ==
    IF prefers THEN FALSE
    ELSE IF savedPreference # "absent" THEN savedPreference = "true"
    ELSE enabled

\* the value checkMotionPreference gives the flag; enabled is the flag's
\* value before the call
checkMotionPreference(savedPreference, prefers, enabled) ==
    IF savedPreference # "absent" THEN savedPreference = "true"
    ELSE IF prefers THEN FALSE
    ELSE enabled

\* shouldReduceMotion() when the root element has the class or not
shouldReduceMotion(reducedClass) == prefersReduced \/ reducedClass

\* updateMotionToggleButton with the two attribute values exchanged
updateMotionToggleButtonSwapped(enabled) ==
    IF ~toggleExists THEN ariaPressed
    ELSE IF enabled THEN "true" ELSE "false"

\* aria-pressed after updateMotionToggleButton
updateMotionToggleButton(enabled) ==
    IF ~toggleExists THEN ariaPressed
    ELSE IF enabled THEN "false" ELSE "true"

applyMotionPreference(enabled) ==
    /\ motionEnabled' = enabled
    /\ rootReduced' = ~enabled
    /\ ariaPressed' = updateMotionToggleButton(enabled)
    /\ storedMotion' = BoolString(enabled)

\* handles after initParallax(): the old ones are killed first
initParallax(reduce) == IF reduce THEN 0 ELSE NumLayers

\* initAnimations() without its killAnimations() call
initAnimationsAccumulating(handles, reduce) ==
    IF reduce THEN handles ELSE handles + NumAnimated

\* handles after initAnimations(): it returns before killAnimations() when
\* motion is reduced
initAnimations(handles, reduce) == IF reduce THEN handles ELSE NumAnimated

\* initParallax(); initAnimations() when allowed, else toggleParallax(false);
\* toggleAnimations(false); toggleHistoryAnimations(false)
SwitchAnimations(allowed) ==
    IF allowed
    THEN /\ parallaxInstances' = initParallax(shouldReduceMotion(rootReduced'))
         /\ animationInstances' =
              initAnimations(animationInstances, shouldReduceMotion(rootReduced'))
    ELSE /\ parallaxInstances' = 0
         /\ animationInstances' = 0

Representations == <<motionEnabled, rootReduced, storedMotion, ariaPressed>>

\* init(): checkMotionPreference(), initParallax(), initAnimations()
initMotion ==
    /\ pageLoaded' = TRUE
    /\ applyMotionPreference(
          checkMotionPreference(storedMotion, prefersReduced, motionEnabled))
    /\ parallaxInstances' = initParallax(shouldReduceMotion(rootReduced'))
    /\ animationInstances' =
          initAnimations(animationInstances, shouldReduceMotion(rootReduced'))
    /\ lastMotionOp' = "init"
    /\ toggleRun' = 0
    /\ beforeToggles' = <<>>
    /\ UNCHANGED <<toggleExists, prefersReduced, refreshTimers, manualPreference>>

\* the click listener of the motion toggle
motionToggleClick ==
    /\ pageLoaded
    /\ toggleExists
    /\ refreshTimers < MaxRefresh
    /\ applyMotionPreference(~motionEnabled)
    /\ SwitchAnimations(motionEnabled')
    /\ refreshTimers' = refreshTimers + 1
    /\ manualPreference' = TRUE
    /\ lastMotionOp' = "toggle"
    /\ toggleRun' = IF toggleRun = 2 THEN 1 ELSE toggleRun + 1
    /\ beforeToggles' = IF toggleRun = 1 THEN beforeToggles ELSE Representations
    /\ UNCHANGED <<pageLoaded, toggleExists, prefersReduced>>
    /\ UNCHANGED exceptMotion

\* the timer of the toggle's click listener fires
refreshTimer ==
    /\ refreshTimers > 0
    /\ refreshTimers' = refreshTimers - 1
    /\ UNCHANGED <<pageLoaded, motionEnabled, storedMotion, rootReduced, ariaPressed,
                   toggleExists, prefersReduced, animationInstances,
                   parallaxInstances, manualPreference, lastMotionOp, toggleRun,
                   beforeToggles>>
    /\ UNCHANGED exceptMotion

\* the system's reduced-motion setting changes; the change listener of
\* watchMotionPreference runs when the page is loaded
motionPreferenceChange ==
    /\ prefersReduced' = ~prefersReduced
    /\ toggleRun' = 0
    /\ beforeToggles' = <<>>
    /\ IF pageLoaded /\ storedMotion = "absent"
       THEN /\ applyMotionPreference(~prefersReduced')
            /\ IF ~prefersReduced'
               THEN /\ parallaxInstances' = initParallax(prefersReduced' \/ rootReduced')
                    /\ animationInstances' =
                         initAnimations(animationInstances,
                                        prefersReduced' \/ rootReduced')
               ELSE /\ parallaxInstances' = 0
                    /\ animationInstances' = 0
            /\ lastMotionOp' = "systemApplied"
       ELSE /\ lastMotionOp' = IF pageLoaded THEN "systemIgnored" ELSE lastMotionOp
            /\ UNCHANGED <<motionEnabled, rootReduced, ariaPressed, storedMotion,
                           parallaxInstances, animationInstances>>
    /\ UNCHANGED <<pageLoaded, toggleExists, refreshTimers, manualPreference>>
    /\ UNCHANGED exceptMotion

\* the user clears the site's stored data
clearStorage ==
    /\ storedMotion # "absent"
    /\ storedMotion' = "absent"
    /\ manualPreference' = FALSE
    /\ toggleRun' = 0
    /\ beforeToggles' = <<>>
    /\ lastMotionOp' = "cleared"
    /\ UNCHANGED <<pageLoaded, motionEnabled, rootReduced, ariaPressed, toggleExists,
                   prefersReduced, animationInstances, parallaxInstances,
                   refreshTimers>>
    /\ UNCHANGED exceptMotion

\* ====================================================================== map
\* a coordinate of a record: d = FALSE when the field is missing
Coordinate(d, v) == [d |-> d, v |-> v]
Coordinates == {Coordinate(FALSE, 0), Coordinate(TRUE, 0), Coordinate(TRUE, 37)}

\* a record of locations.json: its coords field (has = FALSE: no coords
\* object) and whether it has a summary
Records ==
    [has : {TRUE}, lat : Coordinates, lng : Coordinates, summary : BOOLEAN]
    \cup [has : {FALSE}, lat : {Coordinate(FALSE, 0)}, lng : {Coordinate(FALSE, 0)},
          summary : BOOLEAN]

Datasets == UNION {[1..n -> Records] : n \in 0..MaxRecords}

\* !x of the script for a coordinate: a missing field and the number 0 are
\* both falsy
Falsy(c) == ~c.d \/ c.v = 0

\* the test of line 139: the record is skipped with a warning
Skipped(location) ==
    ~location.has \/ Falsy(location.lat) \/ Falsy(location.lng)

\* the try block of lines 146-204 ends without an error: location.summary
\* is a string
MarkerBuilt(location) == location.summary

RECURSIVE MarkedFrom(_, _)
MarkedFrom(data, i) ==
    IF i > Len(data) THEN <<>>
    ELSE (IF ~Skipped(data[i]) /\ MarkerBuilt(data[i]) THEN <<i>> ELSE <<>>)
         \o MarkedFrom(data, i + 1)

\* markers after addMarkers()
addMarkers(hasMap, data, old) ==
    IF ~hasMap \/ Len(data) = 0 THEN old ELSE MarkedFrom(data, 1)

\* the try block of lines 39-45 that does not test response.ok
DataLoadedWhateverStatus(outcome) == outcome # "network"

\* the try block of lines 39-45 ends without an error
DataLoaded(outcome) == outcome = "ok"

\* init(): initMap() up to its await
initMap ==
    /\ IF ~leafletLoaded
       THEN /\ mapText' = IF mapContainerExists THEN "libraryError" ELSE mapText
            /\ mapPromise' = "fulfilled"
       ELSE /\ mapPromise' = "pending"
            /\ UNCHANGED mapText
    /\ UNCHANGED <<leafletLoaded, mapContainerExists, locationsOutcome, locationsData,
                   mapCreated, markers>>

\* the fetch of locations.json settles and initMap() runs to its end; body is
\* what the response holds, created whether L.map() returns a map
locationsFetchSettles(outcome, body, created) ==
    /\ mapPromise = "pending"
    /\ locationsOutcome' = outcome
    /\ mapPromise' = "fulfilled"
    /\ IF ~DataLoaded(outcome)
       THEN /\ mapText' = IF mapContainerExists THEN "dataError" ELSE mapText
            /\ UNCHANGED <<locationsData, mapCreated, markers>>
       ELSE /\ locationsData' = body
            /\ IF ~mapContainerExists
               THEN UNCHANGED <<mapCreated, markers, mapText>>
               ELSE IF ~created
               THEN /\ mapText' = "initError"
                    /\ UNCHANGED <<mapCreated, markers>>
               ELSE /\ mapCreated' = TRUE
                    /\ markers' = addMarkers(TRUE, body, markers)
                    /\ UNCHANGED mapText
    /\ UNCHANGED <<leafletLoaded, mapContainerExists>>
    /\ UNCHANGED exceptMap

\* ================================================================== history
HistoryDatasets == UNION {[1..n -> 0..MaxEvents] : n \in 0..MaxPeriods}

\* historyData[index] of the script: the number of events of that period,
\* -1 when there is no such period
EventsOf(data, index) == IF index \in 0..(Len(data) - 1) THEN data[index + 1] ELSE -1

updateSliderCounter(data, t) ==
    IF ~sliderExists \/ EventsOf(data, t.currentPeriodIndex) = -1 THEN t
    ELSE [t EXCEPT !.counter =
            <<t.currentEventIndex + 1, EventsOf(data, t.currentPeriodIndex)>>]

updateSliderButtons(data, t) ==
    IF ~sliderExists \/ EventsOf(data, t.currentPeriodIndex) = -1 THEN t
    ELSE [t EXCEPT
            !.prevDisabled = (t.currentEventIndex = 0 /\ t.currentPeriodIndex = 0),
            !.nextDisabled =
                (/\ t.currentEventIndex = EventsOf(data, t.currentPeriodIndex) - 1
                 /\ t.currentPeriodIndex = Len(data) - 1)]

createTimeline(data, t) ==
    IF ~timelineExists \/ Len(data) = 0 THEN t
    ELSE [t EXCEPT !.points = Len(data), !.point = 0]

createSlider(data, t) ==
    IF ~sliderExists \/ Len(data) = 0 THEN t
    ELSE IF EventsOf(data, t.currentPeriodIndex) <= 0
    THEN [t EXCEPT !.slides = 0, !.slide = -1]
    ELSE updateSliderButtons(data, updateSliderCounter(data,
            [t EXCEPT !.slides = EventsOf(data, t.currentPeriodIndex), !.slide = 0]))

updateSlider(data, t) ==
    LET made == createSlider(data, t)
    IN IF ~sliderExists THEN made
       ELSE updateSliderButtons(data, updateSliderCounter(data,
               [made EXCEPT !.slide = IF made.currentEventIndex \in 0..(made.slides - 1)
                                      THEN made.currentEventIndex ELSE -1]))

\* selectPeriod that returns when the timeline container is missing
selectPeriodGuarded(data, t, index) ==
    IF index < 0 \/ index >= Len(data) THEN t
    ELSE IF ~timelineExists THEN t
    ELSE updateSlider(data, [t EXCEPT !.currentPeriodIndex = index,
                                      !.currentEventIndex = 0, !.point = index])

\* selectPeriod that takes every index
selectPeriodUnchecked(data, t, index) ==
    LET chosen == [t EXCEPT !.currentPeriodIndex = index, !.currentEventIndex = 0]
    IN IF ~timelineExists THEN [chosen EXCEPT !.thrown = TRUE]
       ELSE updateSlider(data, [chosen EXCEPT !.point = index])

\* selectPeriod(index); thrown: line 92 reads querySelectorAll of null
selectPeriod(data, t, index) ==
    IF index < 0 \/ index >= Len(data) THEN t
    ELSE LET chosen == [t EXCEPT !.currentPeriodIndex = index, !.currentEventIndex = 0]
         IN IF ~timelineExists THEN [chosen EXCEPT !.thrown = TRUE]
            ELSE updateSlider(data, [chosen EXCEPT !.point = index])

\* nextEvent that wraps to the first period after the last event
nextEventWrapping(data, t) ==
    LET n == EventsOf(data, t.currentPeriodIndex)
    IN IF n = -1 THEN t
       ELSE IF t.currentEventIndex < n - 1
       THEN updateSlider(data, [t EXCEPT !.currentEventIndex = t.currentEventIndex + 1])
       ELSE IF t.currentPeriodIndex < Len(data) - 1
       THEN selectPeriod(data, t, t.currentPeriodIndex + 1)
       ELSE selectPeriod(data, t, 0)

nextEventResult(data, t) ==
    LET n == EventsOf(data, t.currentPeriodIndex)
    IN IF n = -1 THEN t
       ELSE IF t.currentEventIndex < n - 1
       THEN updateSlider(data, [t EXCEPT !.currentEventIndex = t.currentEventIndex + 1])
       ELSE IF t.currentPeriodIndex < Len(data) - 1
       THEN selectPeriod(data, t, t.currentPeriodIndex + 1)
       ELSE t

prevEventResult(data, t) ==
    IF t.currentEventIndex > 0
    THEN updateSlider(data, [t EXCEPT !.currentEventIndex = t.currentEventIndex - 1])
    ELSE IF t.currentPeriodIndex > 0
    THEN LET selected == selectPeriod(data, t, t.currentPeriodIndex - 1)
         IN IF selected.thrown THEN selected
            ELSE updateSlider(data,
                    [selected EXCEPT !.currentEventIndex =
                        EventsOf(data, t.currentPeriodIndex - 1) - 1])
    ELSE t

\* init(): initHistory() up to its await
initHistory ==
    /\ historyPromise' = "pending"
    /\ UNCHANGED <<timelineExists, sliderExists, historyOutcome, historyData, timeline,
                   sliderTouchStartX, historyText, historyError, lastHistoryOp>>

\* the fetch of history.json settles and initHistory() runs to its end
historyFetchSettles(outcome, body) ==
    /\ historyPromise = "pending"
    /\ historyOutcome' = outcome
    /\ historyPromise' = "fulfilled"
    /\ IF outcome # "ok"
       THEN UNCHANGED <<historyData, timeline>>
       ELSE /\ historyData' = body
            /\ timeline' = createSlider(body, createTimeline(body, timeline))
    /\ historyError' = "none"
    /\ lastHistoryOp' = "loaded"
    /\ UNCHANGED <<timelineExists, sliderExists, sliderTouchStartX, historyText>>
    /\ UNCHANGED exceptHistory

\* the handlers of the history section exist once initHistory() has passed
\* its await with a loaded dataset
HistoryListening == historyOutcome = "ok"

\* a handler of the history section ends in the state t
HistoryHandler(op, t) ==
    /\ timeline' = [t EXCEPT !.thrown = FALSE]
    /\ historyError' = IF t.thrown THEN "TypeError" ELSE "none"
    /\ lastHistoryOp' = op
    /\ UNCHANGED <<timelineExists, sliderExists, historyPromise, historyOutcome,
                   historyData, historyText>>
    /\ UNCHANGED exceptHistory

\* a click, Enter or Space on a timeline point
pointSelect(index) ==
    /\ HistoryListening
    /\ index < timeline.points
    /\ HistoryHandler("selectPeriod", selectPeriod(historyData, timeline, index))
    /\ UNCHANGED sliderTouchStartX

\* the slider's buttons, and the arrow keys while the focus is inside the
\* history section
SliderReachable == sliderExists \/ timeline.points > 0

nextEvent ==
    /\ HistoryListening
    /\ SliderReachable
    /\ HistoryHandler("nextEvent", nextEventResult(historyData, timeline))
    /\ UNCHANGED sliderTouchStartX

prevEvent ==
    /\ HistoryListening
    /\ SliderReachable
    /\ HistoryHandler("prevEvent", prevEventResult(historyData, timeline))
    /\ UNCHANGED sliderTouchStartX

sliderTouchStart(x) ==
    /\ HistoryListening
    /\ sliderExists
    /\ sliderTouchStartX' = x
    /\ HistoryHandler("touchStart", timeline)

\* touchend on the slider track: handleSwipe of initHistory
sliderTouchEnd(x) ==
    /\ HistoryListening
    /\ sliderExists
    /\ UNCHANGED sliderTouchStartX
    /\ IF Abs(sliderTouchStartX - x) > swipeThreshold
       THEN IF sliderTouchStartX - x > 0
            THEN HistoryHandler("swipeNext", nextEventResult(historyData, timeline))
            ELSE HistoryHandler("swipePrev", prevEventResult(historyData, timeline))
       ELSE HistoryHandler("touchEnd", timeline)

\* ============================================================= contact form
Chars == {"a", " ", "@", "."}
Strings(alphabet, n) == UNION {[1..k -> alphabet] : k \in 0..n}
As(n) == [i \in 1..n |-> "a"]
Blanks(n) == [i \in 1..n |-> " "]

\* addresses longer than the exhaustive ones: well-formed ones, and ones with
\* a blank around them, a second "@" or no text after the dot
LongerEmails ==
    {<<"a", "@", "a", ".", "a">>,
     <<"a", "@", "a", ".", "a", " ">>,
     <<" ", "a", "@", "a", ".", "a">>,
     <<"a", "@", "@", "a", ".", "a">>,
     <<"a", "@", "a", ".", ".", "a">>,
     <<"a", ".", "a", "@", "a", ".", "a">>,
     <<"a", "@", "a", "a", ".">>,
     <<"a", "@", ".", "a", "a">>}
Emails == Strings(Chars, MaxEmailLen) \cup LongerEmails
Names == Strings({"a", " "}, MaxNameLen)
Messages ==
    {Blanks(k) \o As(m) \o Blanks(j) :
        k \in 0..MaxPad, j \in 0..MaxPad, m \in {0, MinMessage - 1, MinMessage}}

\* what the user types: every email next to a good name and message, and
\* every name and message next to a good and a bad email
FormInputs ==
    {[name |-> As(MinName), email |-> e, message |-> As(MinMessage)] : e \in Emails}
    \cup {[name |-> n, email |-> e, message |-> m] :
            n \in Names, m \in Messages, e \in {<<"a", "@", "a", ".", "a">>, <<"a">>}}

RECURSIVE TrimStart(_)
TrimStart(v) == IF v # <<>> /\ Head(v) = " " THEN TrimStart(Tail(v)) ELSE v

RECURSIVE TrimEnd(_)
TrimEnd(v) ==
    IF v # <<>> /\ v[Len(v)] = " " THEN TrimEnd(SubSeq(v, 1, Len(v) - 1)) ELSE v

\* value.trim()
Trim(v) == TrimEnd(TrimStart(v))

\* emailRegex.test(value) for /^[^\s@]+@[^\s@]+\.[^\s@]+$/
EmailRegexTest(v) ==
    \E i, j \in 1..Len(v) :
        /\ 1 < i /\ i + 1 < j /\ j < Len(v)
        /\ v[i] = "@"
        /\ v[j] = "."
        /\ \A k \in (1..Len(v)) \ {i} : v[k] \notin {" ", "@"}

\* the error text without the test of the trimmed length
FieldErrorRawLength(type, value) ==
    IF Trim(value) = <<>> THEN "required"
    ELSE IF type = "email"
    THEN (IF EmailRegexTest(value) THEN "" ELSE "email")
    ELSE IF type = "name" /\ Len(value) < MinName THEN "nameShort"
    ELSE IF type = "message" /\ Len(value) < MinMessage THEN "messageShort"
    ELSE ""

\* the error text validateField computes (lines 489-502)
FieldError(type, value) ==
    IF Trim(value) = <<>> THEN "required"
    ELSE IF type = "email"
    THEN (IF EmailRegexTest(value) THEN "" ELSE "email")
    ELSE IF type = "name" /\ Len(Trim(value)) < MinName THEN "nameShort"
    ELSE IF type = "message" /\ Len(Trim(value)) < MinMessage THEN "messageShort"
    ELSE ""

\* what validateField returns for an input of the page
validateField(type) ==
    type \notin formTemplate.errors \/ FieldError(type, formValues[type]) = ""

\* the error texts and classes after validateField has run on the fields of
\* the set done
ErrorsAfter(done) ==
    [f \in Fields |->
        IF f \in done /\ f \in formTemplate.errors
        THEN FieldError(f, formValues[f]) ELSE fieldErrors[f]]

ClassesAfter(done) ==
    (errorClass \ {f \in done : f \in formTemplate.errors /\ validateField(f)})
    \cup {f \in done : ~validateField(f)}

\* init(): setupContactForm() attaches the listeners
setupContactForm == UNCHANGED formVars

\* the user types into the empty form; the input listeners clear the error
\* texts and classes
fillForm(typed) ==
    /\ pageLoaded
    /\ formValues = BlankValues
    /\ typed # BlankValues
    /\ \A f \in Fields \ formTemplate.inputs : typed[f] = <<>>
    /\ formValues' = typed
    /\ fieldErrors' = [f \in Fields |->
                          IF f \in formTemplate.errors /\ typed[f] # <<>>
                          THEN "" ELSE fieldErrors[f]]
    /\ errorClass' = {f \in errorClass : typed[f] = <<>>}
    /\ formError' = "none"
    /\ lastFormOp' = "input"
    /\ formFocus' = "none"
    /\ UNCHANGED <<formTemplate, successShown, hideTimers, formRequests>>
    /\ UNCHANGED exceptForm

\* the user empties every field
emptyForm ==
    /\ pageLoaded
    /\ formValues # BlankValues
    /\ formValues' = BlankValues
    /\ fieldErrors' = [f \in Fields |->
                          IF f \in formTemplate.errors /\ formValues[f] # <<>>
                          THEN "" ELSE fieldErrors[f]]
    /\ errorClass' = {f \in errorClass : formValues[f] = <<>>}
    /\ formError' = "none"
    /\ lastFormOp' = "input"
    /\ formFocus' = "none"
    /\ UNCHANGED <<formTemplate, successShown, hideTimers, formRequests>>
    /\ UNCHANGED exceptForm

\* the blur listener of an input
blurField(type) ==
    /\ pageLoaded
    /\ type \in formTemplate.inputs
    /\ fieldErrors' = ErrorsAfter({type})
    /\ errorClass' = ClassesAfter({type})
    /\ formError' = "none"
    /\ lastFormOp' = "blur"
    /\ formFocus' = "none"
    /\ UNCHANGED <<formTemplate, formValues, successShown, hideTimers, formRequests>>
    /\ UNCHANGED exceptForm

\* the fields handleFormSubmit validates before it reads the id of a missing
\* input, in the order name, email, message
ValidatedBeforeThrow ==
    IF "name" \notin formTemplate.inputs THEN {}
    ELSE IF "email" \notin formTemplate.inputs THEN {"name"}
    ELSE IF "message" \notin formTemplate.inputs THEN {"name", "email"}
    ELSE Fields

\* handleFormSubmit that focuses the last invalid field
FirstInvalidFromEnd ==
    IF ~validateField("message") THEN "message"
    ELSE IF ~validateField("email") THEN "email"
    ELSE IF ~validateField("name") THEN "name"
    ELSE "none"

\* the field lines 533-535 focus
FirstInvalid ==
    IF ~validateField("name") THEN "name"
    ELSE IF ~validateField("email") THEN "email"
    ELSE IF ~validateField("message") THEN "message"
    ELSE "none"

\* the submit listener of the form
handleFormSubmit ==
    /\ pageLoaded
    /\ hideTimers < MaxHide
    /\ fieldErrors' = ErrorsAfter(ValidatedBeforeThrow)
    /\ errorClass' = ClassesAfter(ValidatedBeforeThrow)
    /\ UNCHANGED <<formTemplate, formRequests>>
    /\ UNCHANGED exceptForm
    /\ IF ValidatedBeforeThrow # Fields
       THEN /\ formError' = "TypeError"
            /\ lastFormOp' = "submitThrown"
            /\ formFocus' = "none"
            /\ UNCHANGED <<formValues, successShown, hideTimers>>
       ELSE IF FirstInvalid # "none"
       THEN /\ formError' = "none"
            /\ lastFormOp' = "submitInvalid"
            /\ formFocus' = FirstInvalid
            /\ UNCHANGED <<formValues, successShown, hideTimers>>
       ELSE /\ formError' = "none"
            /\ lastFormOp' = "submitValid"
            /\ IF formTemplate.success
               THEN /\ successShown' = TRUE
                    /\ hideTimers' = hideTimers + 1
               ELSE UNCHANGED <<successShown, hideTimers>>
            /\ formValues' = BlankValues
            /\ formFocus' = "none"

\* the timer of a successful submit fires
hideSuccess ==
    /\ hideTimers > 0
    /\ hideTimers' = hideTimers - 1
    /\ successShown' = FALSE
    /\ formError' = "none"
    /\ lastFormOp' = "hide"
    /\ UNCHANGED <<formTemplate, formValues, fieldErrors, errorClass, formFocus,
                   formRequests>>
    /\ UNCHANGED exceptForm

\* ===================================================================== page
\* init() of the page script
init ==
    /\ ~pageLoaded
    /\ initMotion
    /\ initMap
    /\ initHistory
    /\ setupContactForm
    /\ UNCHANGED vars

\* the page is left or reloaded: the script state and the document go, the
\* stored item stays
unloadPage ==
    /\ pageLoaded
    /\ pageLoaded' = FALSE
    /\ motionEnabled' = TRUE
    /\ rootReduced' = FALSE
    /\ ariaPressed' = "unset"
    /\ animationInstances' = 0
    /\ parallaxInstances' = 0
    /\ refreshTimers' = 0
    /\ lastMotionOp' = "none"
    /\ toggleRun' = 0
    /\ beforeToggles' = <<>>
    /\ UNCHANGED <<storedMotion, toggleExists, prefersReduced, manualPreference>>
    /\ UNCHANGED <<leafletLoaded, mapContainerExists>>
    /\ mapPromise' = "none"
    /\ locationsOutcome' = "none"
    /\ locationsData' = <<>>
    /\ mapCreated' = FALSE
    /\ markers' = <<>>
    /\ mapText' = ""
    /\ UNCHANGED <<timelineExists, sliderExists>>
    /\ historyPromise' = "none"
    /\ historyOutcome' = "none"
    /\ historyData' = <<>>
    /\ timeline' = BlankTimeline
    /\ sliderTouchStartX' = 0
    /\ historyText' = ""
    /\ historyError' = "none"
    /\ lastHistoryOp' = "none"
    /\ UNCHANGED formTemplate
    /\ formValues' = BlankValues
    /\ fieldErrors' = NoErrors
    /\ errorClass' = {}
    /\ successShown' = FALSE
    /\ hideTimers' = 0
    /\ formFocus' = "none"
    /\ formError' = "none"
    /\ formRequests' = 0
    /\ lastFormOp' = "none"
    /\ UNCHANGED vars

InitMotion ==
    /\ ModalIdle
    /\ FormIdle
    /\ MapIdle
    /\ HistoryIdle
    /\ pageLoaded = FALSE
    /\ motionEnabled = TRUE
    /\ storedMotion = "absent"
    /\ rootReduced = FALSE
    /\ ariaPressed = "unset"
    /\ toggleExists \in BOOLEAN
    /\ prefersReduced \in BOOLEAN
    /\ animationInstances = 0
    /\ parallaxInstances = 0
    /\ refreshTimers = 0
    /\ manualPreference = FALSE
    /\ lastMotionOp = "none"
    /\ toggleRun = 0
    /\ beforeToggles = <<>>

NextMotion ==
    \/ init
    \/ motionToggleClick
    \/ refreshTimer
    \/ motionPreferenceChange
    \/ unloadPage
    \/ clearStorage

SpecMotion == InitMotion /\ [][NextMotion]_allVars

InitMap ==
    /\ ModalIdle
    /\ FormIdle
    /\ MotionIdle
    /\ HistoryIdle
    /\ leafletLoaded \in BOOLEAN
    /\ mapContainerExists \in BOOLEAN
    /\ mapPromise = "none"
    /\ locationsOutcome = "none"
    /\ locationsData = <<>>
    /\ mapCreated = FALSE
    /\ markers = <<>>
    /\ mapText = ""

NextMap ==
    \/ init
    \/ \E outcome \in {"ok", "http404", "network"}, body \in Datasets,
          created \in BOOLEAN :
          locationsFetchSettles(outcome, body, created)
    \/ unloadPage

SpecMap == InitMap /\ [][NextMap]_allVars

InitHistory ==
    /\ ModalIdle
    /\ FormIdle
    /\ MotionIdle
    /\ MapIdle
    /\ timelineExists \in BOOLEAN
    /\ sliderExists \in BOOLEAN
    /\ historyPromise = "none"
    /\ historyOutcome = "none"
    /\ historyData = <<>>
    /\ timeline = BlankTimeline
    /\ sliderTouchStartX = 0
    /\ historyText = ""
    /\ historyError = "none"
    /\ lastHistoryOp = "none"

NextHistory ==
    \/ init
    \/ \E outcome \in {"ok", "http404", "network"}, body \in HistoryDatasets :
          historyFetchSettles(outcome, body)
    \/ \E index \in 0..(MaxPeriods - 1) : pointSelect(index)
    \/ nextEvent
    \/ prevEvent
    \/ \E x \in TouchXs : sliderTouchStart(x)
    \/ \E x \in TouchXs : sliderTouchEnd(x)
    \/ unloadPage

SpecHistory == InitHistory /\ [][NextHistory]_allVars

FormTemplates ==
    {FullForm,
     [FullForm EXCEPT !.inputs = Fields \ {"email"}],
     [FullForm EXCEPT !.errors = Fields \ {"email"}],
     [FullForm EXCEPT !.success = FALSE]}

InitForm ==
    /\ ModalIdle
    /\ MotionIdle
    /\ MapIdle
    /\ HistoryIdle
    /\ formTemplate \in FormTemplates
    /\ FormBlank

NextForm ==
    \/ init
    \/ \E typed \in FormInputs : fillForm(typed)
    \/ emptyForm
    \/ \E type \in Fields : blurField(type)
    \/ handleFormSubmit
    \/ hideSuccess
    \/ unloadPage

SpecForm == InitForm /\ [][NextForm]_allVars

\* ================================================================== claims
\* ==================================================================== claims
Elements(seq) == {seq[k] : k \in 1..Len(seq)}

\* the session is open on a location whose gallery has n images
OpenOn(n) ==
    /\ Shown
    /\ currentLocation # Null
    /\ currentLocation.hasGallery
    /\ Len(currentLocation.gallery) = n

C1_Opened(location) ==
    LET n == Len(location.gallery)
    IN /\ currentLocation = location
       /\ currentImageIndex = 0
       /\ ariaHidden = "false"
       /\ bodyOverflow = "hidden"
       /\ n = 0 => galleryView.kind = "empty"
       /\ n = 1 => galleryView.kind = "single" /\ galleryView.src = location.gallery[1]
       /\ n >= 2 => /\ galleryView.kind = "full"
                    /\ galleryView.src = location.gallery[1]
                    /\ galleryView.counter = <<1, n>>
                    /\ galleryView.thumbs = n
                    /\ galleryView.active = {0}
       /\ Elements(focusableElements) =
             (IF closeBtnExists THEN {CloseBtn} ELSE {})
             \cup (IF n >= 2 THEN {PrevBtn, NextBtn} \cup {Thumb(i) : i \in 0..(n - 1)} ELSE {})
       /\ Len(focusableElements) = Cardinality(Elements(focusableElements))

\* C1: openModal(location) with a location that is not null, the dialog root
\* existing, leaves currentLocation = location, currentImageIndex = 0, the
\* dialog visible, background scroll disabled, the gallery rendered for
\* location.gallery and the focus ring equal to the focusable elements of the
\* dialog.
C1_OpenModalOpens ==
    [][\A location \in Locations :
          (modalExists /\ lastOp' = "openModal" /\ openModal(location))
              => C1_Opened(location)']_vars

C1_Witness ==
    /\ lastOp = "openModal"
    /\ OpenOn(3)
    /\ closeBtnExists
    /\ Len(focusableElements) = 6
    /\ galleryView.kind = "full"

Closed ==
    /\ ariaHidden = "true"
    /\ bodyOverflow = ""
    /\ currentLocation = Null
    /\ currentImageIndex = 0
    /\ focusableElements = <<>>
    /\ previouslyFocusedElement = NoElement

\* C2: while the dialog is open, a backdrop click, a close button click and
\* the Escape key each close it: dialog hidden, scroll enabled again,
\* currentLocation none, currentImageIndex 0, focus ring empty,
\* previouslyFocusedElement cleared.
C2_CloseTriggersClose ==
    [][(Shown /\ (clickBackdrop \/ clickClose \/ keyEscape)) => Closed']_vars

C2_Witness ==
    /\ lastOp = "keyEscape"
    /\ Closed
    /\ galleryView.kind = "full"
    /\ galleryView.active = {1}
    /\ activeElement = Marker

\* C3 as claimed: closeModal() right after openModal(location) leaves the
\* focus on the element E that had it when openModal was called, for every E.
C3_FocusRestoredForEveryElement ==
    (lastOp = "closeModal" /\ focusAtOpen # NoElement) => activeElement = focusAtOpen

\* C3 amended: closeModal() right after openModal(location) leaves the focus
\* on the element E that had it when openModal was called, for every E that
\* is not inside the gallery container (which openModal renders anew).
C3_FocusRestored ==
    (lastOp = "closeModal" /\ focusAtOpen # NoElement /\ ~InGallery(focusAtOpen))
        => activeElement = focusAtOpen

C3_Witness ==
    /\ lastOp = "closeModal"
    /\ focusAtOpen = Marker
    /\ activeElement = Marker
    /\ galleryView.kind = "full"

\* C4: whenever a location with a gallery that is not empty is open,
\* 0 <= currentImageIndex < gallery.length.
C4_IndexInRange ==
    \A n \in 1..MaxGallery :
        OpenOn(n) => (currentImageIndex >= 0 /\ currentImageIndex < n)

C4_Witness ==
    /\ OpenOn(3)
    /\ currentImageIndex = 2
    /\ lastOp = "swipe"

\* a handler calls navigateGallery(direction, images) in this step
NavigateStep(direction) ==
    \/ clickNav(direction)
    \/ keyArrow(direction) /\ ArrowNavigates
    \/ \E x \in TouchXs :
          /\ handleTouchEnd(x)
          /\ SwipeDirection(touchStartX, x, currentLocation) = direction

\* C5: for a gallery of n >= 2 images and an index i in [0, n),
\* navigateGallery(d, images) with d = +1 or -1 sets currentImageIndex to
\* (i + d) mod n.
C5_NavigateWraps ==
    [][(Shown /\ currentLocation.hasGallery /\ Len(currentLocation.gallery) >= 2) =>
          LET n == Len(currentLocation.gallery)
          IN \A direction \in {-1, 1} :
                (currentImageIndex \in 0..(n - 1) /\ NavigateStep(direction))
                    => currentImageIndex' = (currentImageIndex + direction + n) % n]_vars

C5_Witness ==
    /\ OpenOn(3)
    /\ lastOp = "clickNav"
    /\ activeElement = PrevBtn
    /\ currentImageIndex = 2
    /\ galleryView.counter = <<3, 3>>

\* C6: for a gallery of n >= 2 images, n calls of navigateGallery(+1, images)
\* from index 0 bring currentImageIndex back to 0.
C6_RoundTrip ==
    \A n \in 2..MaxGallery :
        (OpenOn(n) /\ nextRun = n) => currentImageIndex = 0

C6_Witness ==
    /\ OpenOn(3)
    /\ nextRun = 3
    /\ currentImageIndex = 0

\* C7: while a gallery of n >= 2 images is open, between handlers the main
\* image is images[currentImageIndex], the counter reads
\* "currentImageIndex + 1 / n" and the thumbnail at currentImageIndex, and no
\* other, is active.
C7_ViewFollowsIndex ==
    \A n \in 2..MaxGallery :
        OpenOn(n) =>
            /\ galleryView.kind = "full"
            /\ galleryView.thumbs = n
            /\ currentImageIndex \in 0..(n - 1)
            /\ galleryView.src = currentLocation.gallery[currentImageIndex + 1]
            /\ galleryView.counter = <<currentImageIndex + 1, n>>
            /\ galleryView.active = {currentImageIndex}

C7_Witness ==
    /\ OpenOn(3)
    /\ lastOp = "clickThumb"
    /\ currentImageIndex = 1
    /\ galleryView.counter = <<2, 3>>

\* C8: no handler of the modal controller raises an error.
C8_NoErrorEscapes == error = "none"

\* C9: at most one focus trap listener is attached to the dialog, and after
\* openModal it is the one that cycles over the focus ring of that call.
C9_OneTrapOnCurrentRing ==
    /\ Len(trapListeners) <= 1
    /\ (Shown /\ Len(focusableElements) >= 1) =>
           trapListeners = <<[first |-> focusableElements[1],
                              last |-> focusableElements[Len(focusableElements)]]>>

\* C10: with the dialog open and k >= 1 focusable elements, Tab on the last
\* one moves the focus to the first and Shift+Tab on the first moves it to
\* the last.
C10_TabCycles ==
    [][(Shown /\ Len(focusableElements) >= 1) =>
          /\ (activeElement = focusableElements[Len(focusableElements)] /\ keyTab(FALSE))
                => activeElement' = focusableElements[1]
          /\ (activeElement = focusableElements[1] /\ keyTab(TRUE))
                => activeElement' = focusableElements[Len(focusableElements)]]_vars

\* C11: after openModal on a dialog with at least one focusable element, the
\* focus is eventually on the first member of the focus ring, unless the
\* dialog is closed (or opened again with nothing to focus).
C11_FocusReachesFirst ==
    (lastOp = "openModal" /\ Len(focusableElements) >= 1)
        ~> (\/ ~Shown
            \/ Len(focusableElements) = 0
            \/ Len(focusableElements) >= 1 /\ activeElement = focusableElements[1])

\* a handler runs closeModal in this step
CloseStep == closeModal \/ clickBackdrop \/ clickClose \/ (keyEscape /\ KeydownHandled)

\* C12 as claimed: closeModal does not cancel the open-focus timer, and the
\* callback that runs after closeModal moves the focus onto an element of
\* the closed dialog (the first focusable one) when the dialog has one.
C12_TimerFocusesClosedDialog ==
    [][/\ CloseStep => timers' = timers
       /\ (focusTimer /\ modalExists /\ ~Shown /\ ModalFocusables(galleryView) # <<>>)
             => activeElement' = ModalFocusables(galleryView)[1]]_vars

\* C12 amended: closeModal does not cancel the open-focus timer; the callback
\* still runs after closeModal, finds the focus ring that closeModal emptied
\* and leaves the focus where it is.
C12_TimerSurvivesClose ==
    [][/\ CloseStep => timers' = timers
       /\ (focusTimer /\ ~Shown)
             => (focusableElements = <<>> /\ activeElement' = activeElement)]_vars

C12_Witness ==
    /\ lastOp = "focusTimer"
    /\ modalExists
    /\ ~Shown
    /\ galleryView.kind = "full"
    /\ activeElement = Marker

\* the navigation controls of the gallery act on the gallery of the open
\* location and on no other
ControlsOnCurrent ==
    Shown =>
        /\ galleryView.kind = "full" <=> Len(currentLocation.gallery) >= 2
        /\ galleryView.kind = "full" =>
              /\ galleryView.images = currentLocation.gallery
              /\ galleryView.src \in Elements(currentLocation.gallery)

\* C13: openModal(B) on an open dialog overwrites the session: currentLocation
\* is B, currentImageIndex is 0, the gallery controls act on B's gallery only,
\* and one closeModal closes the dialog.
C13_OpenOverwrites ==
    [][/\ \A B \in Locations :
             (Shown /\ currentLocation # Null /\ openModal(B))
                 => (currentLocation' = B /\ currentImageIndex' = 0)
       /\ ControlsOnCurrent'
       /\ (Shown /\ closeModal) => Closed']_vars

C13_Witness ==
    /\ openedOver
    /\ lastOp = "openModal"
    /\ currentLocation = Location(2, 2)
    /\ galleryView.images = Location(2, 2).gallery
    /\ currentImageIndex = 0

\* C14: previouslyFocusedElement changes only when the dialog leaves CLOSED
\* (it is assigned) and when it returns to CLOSED (it is cleared): once each
\* per cycle.
C14_CapturedOncePerCycle ==
    [][previouslyFocusedElement' # previouslyFocusedElement =>
          \/ ~Shown /\ Shown'
          \/ Shown /\ ~Shown' /\ previouslyFocusedElement' = NoElement]_vars

\* C15: openModal with a null location or without the dialog root, and
\* closeModal without the dialog root, raise no error and leave the session
\* state, the dialog's visibility and the scroll setting as they are.
C15_GuardsAreNoOps ==
    [][(\/ openModal(Null)
        \/ ~modalExists /\ ((\E location \in Locations : openModal(location)) \/ closeModal))
          => /\ error' = "none"
             /\ UNCHANGED <<currentLocation, currentImageIndex, focusableElements,
                            previouslyFocusedElement, ariaHidden, bodyOverflow>>]_vars

C15_Witness ==
    /\ lastOp = "openModalNoop"
    /\ OpenOn(3)
    /\ currentImageIndex = 1
    /\ bodyOverflow = "hidden"

\* C16: the gallery view depends on the gallery's length only: an empty or
\* absent gallery shows the placeholder, one image shows that image, and in
\* both cases there are no previous/next controls, no counter and no
\* thumbnails.
C16_ViewByLength ==
    (Shown /\ currentLocation # Null /\ Len(currentLocation.gallery) <= 1) =>
        /\ Len(currentLocation.gallery) = 0 => galleryView.kind = "empty"
        /\ Len(currentLocation.gallery) = 1 =>
              /\ galleryView.kind = "single"
              /\ galleryView.src = currentLocation.gallery[1]
        /\ galleryView.thumbs = 0
        /\ galleryView.counter = <<0, 0>>
        /\ galleryView.active = {}
        /\ ~Attached(PrevBtn)
        /\ ~Attached(NextBtn)
        /\ \A i \in 0..MaxGallery : ~Attached(Thumb(i))
        /\ \A e \in Elements(focusableElements) : ~InGallery(e)

C16_Witness ==
    /\ lastOp = "openModal"
    /\ Shown
    /\ currentLocation = NoGalleryLocation
    /\ galleryView.kind = "empty"

\* C17: while a location with one image is open, currentImageIndex is 0 and
\* stays 0 through every swipe and every arrow key.
C17_SingleImageStays ==
    [][OpenOn(1) =>
          /\ currentImageIndex = 0
          /\ ((\E x \in TouchXs : handleTouchEnd(x)) \/ (\E d \in {-1, 1} : keyArrow(d)))
                => (OpenOn(1)' /\ currentImageIndex' = 0)]_vars

C17_Witness ==
    /\ OpenOn(1)
    /\ lastOp = "touchEnd"
    /\ Abs(touchStartX - touchEndX) > 50
    /\ currentImageIndex = 0

\* C18: a touchstart/touchend pair less than 50 pixels apart horizontally
\* leaves currentImageIndex as it is, in every state.
C18_ShortSwipeIgnored ==
    [][\A x \in TouchXs :
          (handleTouchEnd(x) /\ Abs(touchStartX - x) < 50)
              => currentImageIndex' = currentImageIndex]_vars

C18_Witness ==
    /\ lastOp = "touchEnd"
    /\ OpenOn(3)
    /\ Abs(touchStartX - touchEndX) = 1
    /\ currentImageIndex = 1

\* what a swipe from touchStartX to x does to the index when it navigates
\* (left, startX > x: next; right: previous) and when it does not
SwipeEffect(x, navigates) ==
    LET n == Len(currentLocation.gallery)
        d == IF touchStartX - x > 0 THEN 1 ELSE -1
    IN IF navigates /\ currentLocation.hasGallery /\ n >= 2
       THEN currentImageIndex' = (currentImageIndex + d + n) % n
       ELSE currentImageIndex' = currentImageIndex

\* C19 as claimed: a swipe navigates exactly when its horizontal displacement
\* is more than 50 pixels and the open gallery has at least 2 images;
\* exactly 50 pixels navigates nothing.
C19_SwipeBeyondThreshold ==
    [][\A x \in TouchXs :
          handleTouchEnd(x) => SwipeEffect(x, Abs(touchStartX - x) > 50)]_vars

\* C19 amended: a swipe navigates exactly when its horizontal displacement
\* is at least 50 pixels and the open gallery has at least 2 images: left
\* steps to the next image, right to the previous one; less than 50 pixels
\* navigates nothing.
C19_SwipeFromThreshold ==
    [][\A x \in TouchXs :
          handleTouchEnd(x) => SwipeEffect(x, Abs(touchStartX - x) >= 50)]_vars

C19_Witness ==
    /\ lastOp = "swipe"
    /\ OpenOn(3)
    /\ touchStartX - touchEndX = 50
    /\ currentImageIndex = 1
    /\ nextRun = 1

\* C20: ArrowLeft and ArrowRight step currentImageIndex by -1 and +1, wrapped,
\* exactly when the dialog is open on a gallery of at least 2 images; in
\* every other state they leave the session state as it is.
C20_ArrowsNavigateWhenOpen ==
    [][\A d \in {-1, 1} :
          keyArrow(d) =>
              IF Shown /\ currentLocation.hasGallery /\ Len(currentLocation.gallery) >= 2
              THEN /\ currentImageIndex' =
                        (currentImageIndex + d + Len(currentLocation.gallery))
                            % Len(currentLocation.gallery)
                   /\ UNCHANGED <<currentLocation, focusableElements,
                                  previouslyFocusedElement>>
              ELSE UNCHANGED <<currentLocation, currentImageIndex, focusableElements,
                               previouslyFocusedElement, touchStartX, touchEndX>>]_vars

C20_Witness ==
    /\ lastOp = "keyArrow"
    /\ OpenOn(3)
    /\ currentImageIndex = 2
    /\ nextRun = -1
    /\ galleryView.counter = <<3, 3>>

\* C21: when the dialog holds no focusable element, openModal raises no
\* error and installs no focus-trap listener, and the delayed focus step
\* leaves the focus where it is.
C21_EmptyRingIsNoOp ==
    [][/\ \A location \in Locations :
             (/\ openModal(location)
              /\ ~OpenGuardFails(location)
              /\ ModalFocusables(renderGallery(location.gallery)) = <<>>)
                => /\ error' = "none"
                   /\ trapListeners' = <<>>
                   /\ focusableElements' = <<>>
                   /\ Shown'
                   /\ timers' = timers + 1
       /\ (focusTimer /\ focusableElements = <<>>)
             => (activeElement' = activeElement /\ error' = "none")]_vars

C21_Witness ==
    /\ lastOp = "focusTimer"
    /\ Shown
    /\ focusableElements = <<>>
    /\ ModalFocusables(galleryView) = <<>>
    /\ activeElement = Marker
    /\ trapListeners = <<>>
    /\ timers = 0

\* C22: at page load the stored key decides the motion flag when it is
\* present ("true": enabled, "false": disabled); when it is absent the
\* system's reduced-motion signal decides (reduced: disabled, else enabled).
C22_LoadDecidesFlag ==
    [][init =>
          /\ storedMotion = "true" => motionEnabled'
          /\ storedMotion = "false" => ~motionEnabled'
          /\ storedMotion = "absent" => (motionEnabled' <=> ~prefersReduced)]_motionVars

C22_Witness ==
    /\ lastMotionOp = "init"
    /\ prefersReduced
    /\ motionEnabled
    /\ ~rootReduced

\* C23: when the fetch of locations.json fails (network error or a status
\* such as 404), the map container shows the inline error text, no marker is
\* ever added, initMap() ends without an error and init() has run to its end.
C23_FailedFetchShowsError ==
    locationsOutcome \in {"http404", "network"} =>
        /\ mapContainerExists => mapText = "dataError"
        /\ markers = <<>>
        /\ ~mapCreated
        /\ locationsData = <<>>
        /\ mapPromise = "fulfilled"
        /\ pageLoaded

C23_Witness ==
    /\ locationsOutcome = "http404"
    /\ mapContainerExists
    /\ mapText = "dataError"
    /\ markers = <<>>
    /\ mapPromise = "fulfilled"

\* the record has a coords object with both lat and lng
CarriesCoordinates(location) == location.has /\ location.lat.d /\ location.lng.d

\* C25: for every loaded dataset (of records that are complete but for their
\* coordinates) the markers on the map are exactly the records that carry
\* lat and lng, whatever their values and their position.
C25_MarkersAreRecordsWithCoordinates ==
    (/\ mapCreated
     /\ locationsOutcome = "ok"
     /\ \A i \in 1..Len(locationsData) : locationsData[i].summary)
        => /\ \A i \in 1..Len(locationsData) :
                 CarriesCoordinates(locationsData[i])
                    <=> (\E k \in 1..Len(markers) : markers[k] = i)
           /\ \A k, l \in 1..Len(markers) : k < l => markers[k] < markers[l]

\* C28: a change of the system's reduced-motion signal is applied to the
\* motion flag and to the animations while the user has set no preference
\* with the toggle, and is ignored once the user has set one.
C28_SystemChangeFollowed ==
    [][(pageLoaded /\ motionPreferenceChange) =>
          IF manualPreference
          THEN UNCHANGED <<motionEnabled, rootReduced, animationInstances,
                           parallaxInstances>>
          ELSE /\ motionEnabled' = ~prefersReduced'
               /\ rootReduced' = prefersReduced'
               /\ prefersReduced' => (animationInstances' = 0 /\ parallaxInstances' = 0)
               /\ ~prefersReduced' => (/\ animationInstances' = NumAnimated
                                        /\ parallaxInstances' = NumLayers)]_motionVars

\* C29: wherever the dialog root exists, the dialog is marked visible exactly
\* when currentLocation is a location, and exactly when the page scroll is
\* disabled.
C29_SessionAgrees ==
    modalExists =>
        /\ ariaHidden = "false" <=> currentLocation # Null
        /\ currentLocation # Null <=> bodyOverflow = "hidden"
        /\ ariaHidden \in {"true", "false"}
        /\ bodyOverflow \in {"", "hidden"}

C29_Witness ==
    /\ lastOp = "openModal"
    /\ error = "ReferenceError"
    /\ openedOver
    /\ ariaHidden = "false"
    /\ currentLocation = Location(1, 3)
    /\ bodyOverflow = "hidden"

\* C30: after init() and after every motion-toggle click the four
\* representations of the preference agree (the flag, the absence of the
\* class reduce-motion, the stored value "true", aria-pressed "false"), and
\* two consecutive toggle clicks restore all four.
C30_RepresentationsAgree ==
    (pageLoaded /\ lastMotionOp # "cleared") =>
        /\ motionEnabled <=> ~rootReduced
        /\ motionEnabled <=> storedMotion = "true"
        /\ ~motionEnabled <=> storedMotion = "false"
        /\ toggleExists => (motionEnabled <=> ariaPressed = "false")
        /\ toggleExists => (~motionEnabled <=> ariaPressed = "true")
        /\ (toggleRun = 2 /\ beforeToggles[3] # "absent")
              => Representations = beforeToggles

C30_Witness ==
    /\ pageLoaded
    /\ lastMotionOp = "toggle"
    /\ toggleRun = 2
    /\ ~motionEnabled
    /\ prefersReduced
    /\ ariaPressed = "true"

\* C24: a failed fetch of a controller's dataset ends with a static error
\* message in that controller's own region: once the fetch of history.json has
\* failed, the timeline region that exists shows the message.
C24_FailedHistoryFetchShowsMessage ==
    (historyPromise = "fulfilled" /\ historyOutcome \in {"http404", "network"}
        /\ timelineExists)
        => historyText = "dataError"

\* C26: a missing element makes the operation that needs it a silent no-op:
\* no handler of the history section and no handler of the form ends with a
\* thrown error, whatever elements the template lacks.
C26_MissingElementNeverThrows ==
    /\ historyError = "none"
    /\ formError = "none"

\* the content rules of the three fields, as the form states them
LocalDomainTld(v) ==
    \E at, dot \in 1..Len(v) :
        /\ at < dot
        /\ v[at] = "@"
        /\ v[dot] = "."
        /\ SubSeq(v, 1, at - 1) # <<>>
        /\ SubSeq(v, at + 1, dot - 1) # <<>>
        /\ SubSeq(v, dot + 1, Len(v)) # <<>>
        /\ \A k \in 1..Len(v) : v[k] # " "
        /\ \A k \in 1..Len(v) : v[k] = "@" => k = at
PassesContent(type, value) ==
    /\ \E k \in 1..Len(value) : value[k] # " "
    /\ type = "name" => Len(Trim(value)) >= 2
    /\ type = "email" => LocalDomainTld(value)
    /\ type = "message" => Len(Trim(value)) >= 10
FirstFailing(accepted(_)) ==
    IF ~accepted("name") THEN "name"
    ELSE IF ~accepted("email") THEN "email"
    ELSE IF ~accepted("message") THEN "message"
    ELSE "none"
ContentAccepted(type) == PassesContent(type, formValues[type])
TemplateAccepted(type) ==
    type \notin formTemplate.errors \/ PassesContent(type, formValues[type])
SuccessAppears == successShown' /\ hideTimers' = hideTimers + 1

\* C27 as stated: a submit shows the success message exactly when the content
\* of all three fields passes; otherwise it shows none and focuses the first
\* field whose content fails; no request is sent.
C27_SuccessIffContentPasses ==
    [][handleFormSubmit =>
        /\ SuccessAppears <=> (\A f \in Fields : ContentAccepted(f))
        /\ (\E f \in Fields : ~ContentAccepted(f))
              => (formFocus' = FirstFailing(ContentAccepted)
                    /\ UNCHANGED <<successShown, hideTimers>>)
        /\ formRequests' = 0]_formVars

\* C27, amended: on a form with its three inputs a field is accepted when its
\* error element is missing or its content passes; the success message appears
\* exactly when every field is accepted and the success element exists;
\* otherwise none appears, and when a field is rejected focus moves to the
\* first rejected one in the order name, email, message. A submit on a form
\* that lacks an input shows no success message. No request is ever sent.
C27_SuccessIffAccepted ==
    [][handleFormSubmit =>
        /\ formRequests' = 0
        /\ formTemplate.inputs # Fields => UNCHANGED <<successShown, hideTimers>>
        /\ formTemplate.inputs = Fields =>
              /\ SuccessAppears <=>
                    (formTemplate.success /\ \A f \in Fields : TemplateAccepted(f))
              /\ ~SuccessAppears => UNCHANGED <<successShown, hideTimers>>
              /\ (\E f \in Fields : ~TemplateAccepted(f))
                    => formFocus' = FirstFailing(TemplateAccepted)
              /\ (\A f \in Fields : TemplateAccepted(f)) => formValues' = BlankValues]_formVars

\* a rejected email behind an accepted name has taken the focus
C27_Witness ==
    /\ lastFormOp = "submitInvalid"
    /\ formTemplate = FullForm
    /\ formFocus = "email"
    /\ formValues.email = <<"a", "@", "a", ".", "a", " ">>
    /\ ~successShown
    /\ formRequests = 0

\* C31: the lists of live animation handles are empty whenever motion is
\* disabled, and they never hold more than one handle per animated element
\* and per parallax layer: a re-initialisation replaces the handles of the
\* previous one.
C31_HandlesNeverAccumulate ==
    /\ ~motionEnabled => (animationInstances = 0 /\ parallaxInstances = 0)
    /\ animationInstances \in 0..NumAnimated
    /\ parallaxInstances \in 0..NumLayers

\* motion was switched off and on again: the handles are those of one
\* initialisation
C31_Witness ==
    /\ lastMotionOp = "toggle"
    /\ toggleRun = 2
    /\ motionEnabled
    /\ animationInstances = NumAnimated
    /\ parallaxInstances = NumLayers

\* C32: on a loaded dataset whose periods all have events, after any sequence
\* of selectPeriod, nextEvent and prevEvent the period cursor names a period,
\* the event cursor names an event of that period, the counter shows
\* "(currentEventIndex + 1) / events.length", and selectPeriod with an index
\* outside the dataset changes nothing.
EveryPeriodHasEvents ==
    /\ historyOutcome = "ok"
    /\ historyData # <<>>
    /\ \A i \in 1..Len(historyData) : historyData[i] >= 1
C32_CursorsStayInside ==
    EveryPeriodHasEvents =>
        /\ timeline.currentPeriodIndex \in 0..(Len(historyData) - 1)
        /\ timeline.currentEventIndex
              \in 0..(EventsOf(historyData, timeline.currentPeriodIndex) - 1)
        /\ sliderExists =>
              timeline.counter = <<timeline.currentEventIndex + 1,
                                   EventsOf(historyData, timeline.currentPeriodIndex)>>
        /\ \A index \in {-1, Len(historyData), Len(historyData) + 1} :
              selectPeriod(historyData, timeline, index) = timeline

\* the cursors of the slider, and its two ends
Cursor == <<timeline.currentPeriodIndex, timeline.currentEventIndex>>
AtLastEvent ==
    /\ timeline.currentPeriodIndex = Len(historyData) - 1
    /\ timeline.currentEventIndex = historyData[Len(historyData)] - 1
AtFirstEvent == Cursor = <<0, 0>>
CursorAfterNext ==
    IF timeline.currentEventIndex < historyData[timeline.currentPeriodIndex + 1] - 1
    THEN <<timeline.currentPeriodIndex, timeline.currentEventIndex + 1>>
    ELSE IF timeline.currentPeriodIndex < Len(historyData) - 1
    THEN <<timeline.currentPeriodIndex + 1, 0>>
    ELSE Cursor
CursorAfterPrev ==
    IF timeline.currentEventIndex > 0
    THEN <<timeline.currentPeriodIndex, timeline.currentEventIndex - 1>>
    ELSE IF timeline.currentPeriodIndex > 0
    THEN <<timeline.currentPeriodIndex - 1, historyData[timeline.currentPeriodIndex] - 1>>
    ELSE Cursor

\* C33: the slider traverses the dataset in order and does not wrap: a
\* nextEvent (button, key or swipe) steps to the next event, crossing to the
\* first event of the next period, and changes nothing on the last event of
\* the last period; a prevEvent steps back, crossing to the last event of the
\* previous period, and changes nothing on the first event of the first
\* period; after either, the next button is disabled exactly on the last
\* event of the last period and the previous button exactly on the first
\* event of the first.
C33_SliderTraversesInOrder ==
    [][EveryPeriodHasEvents =>
        /\ lastHistoryOp' \in {"nextEvent", "swipeNext"} => Cursor' = CursorAfterNext
        /\ lastHistoryOp' \in {"prevEvent", "swipePrev"} => Cursor' = CursorAfterPrev
        /\ (lastHistoryOp' \in {"nextEvent", "swipeNext", "prevEvent", "swipePrev"}
              /\ sliderExists)
              => /\ timeline'.nextDisabled <=> AtLastEvent'
                 /\ timeline'.prevDisabled <=> AtFirstEvent']_historyVars

====
